---- MODULE Spec2Model ----
(***************************************************************************)
(* Model of src/Code.jsx: the QuantumTelescope React component.            *)
(*                                                                         *)
(* State: the component's useState cells (target, quantumMode, ibmStatus,  *)
(* logs, ephemeris), its refs (imageRef, phaseRef, requestRef), and the    *)
(* browser-side work the component has started and not yet seen finish:    *)
(* image loads in flight, pending setTimeout callbacks of connectToIBM and *)
(* pending requestAnimationFrame callbacks of processFrame.                *)
(***************************************************************************)
EXTENDS Integers, Sequences, FiniteSets, TLC

\* ------------------------------------------------------------- bounds
\* Largest log timestamp: bounds the number of log-producing events.
MaxTime == 5
\* Largest log timestamp of LogSpec, which runs the log-producing events alone.
MaxLogTime == 9
\* LogSpec: most image loads in flight, most session timers pending.
MaxLogLoads == 2
MaxLogTimers == 2
\* Largest log timestamp of SessionSpec, which runs the session and the filter.
MaxSessionTime == 8
\* Resolution of the noise term: it is kept in units of 1/NoiseScale.
NoiseScale == 4
\* Largest number of processed frames.
MaxFrames == 2

\* ----------------------------------------------------- program constants
LogCap == 10
AuthDelay == 1500
QueueDelay == 2000
\* phaseRef is kept in hundredths: += 0.15 is += 15.
PhaseInc == 15

\* noise = Math.sin(...) * 20
NoiseAmp == 20
ByteMax == 255
RedBoost == 10
GreenBoost == 40
BlueBoost == 50

TargetIds == {"MOON", "JUPITER", "SATURN", "MARS"}

NoImage == "null"

TARGETS ==
  [t \in TargetIds |->
     CASE t = "MOON"    -> [url |-> "600px-Tycho_crater_on_the_Moon_-_LRO_WAC.jpg",
                            ra |-> "05h 12m 14s", dec |-> "+18 12' 09", dist |-> "384,400 km"]
       [] t = "JUPITER" -> [url |-> "Jupiter.jpg",
                            ra |-> "01h 45m 22s", dec |-> "+10 20' 44", dist |-> "714,000,000 km"]
       [] t = "SATURN"  -> [url |-> "Saturn_during_Equinox.jpg",
                            ra |-> "22h 30m 11s", dec |-> "-15 45' 10", dist |-> "1,400,000,000 km"]
       [] t = "MARS"    -> [url |-> "OSIRIS_Mars_true_color.jpg",
                            ra |-> "14h 22m 10s", dec |-> "-12 10' 05", dist |-> "225,000,000 km"]]

VARIABLES
  mounted,      \* the component is mounted (its canvas exists)
  target,       \* useState('MOON')
  quantumMode,  \* useState(false)
  ibmStatus,    \* useState('DISCONNECTED')
  logs,         \* useState([...]): sequence of entries, index 1 is the top
  ephemeris,    \* useState(TARGETS.MOON)
  imageRef,     \* imageRef.current: the target whose image it holds, or NoImage
  phaseRef,     \* phaseRef.current, in hundredths
  requestRef,   \* requestRef.current: id of the last requested frame, 0 = undefined
  raf,          \* pending requestAnimationFrame callbacks: [id, mode]
  fxStale,      \* processFrame was re-created and the frame effect has not re-run yet
  loads,        \* image loads in flight, per target
  timers,       \* pending setTimeout callbacks, by delay, in the order they were set
  surface,      \* what the last putImageData wrote to the canvas
  now,          \* the clock addLog stamps entries with
  px            \* one pixel of the frame buffer in the shader loop: what was read, its
                \* noise term, the callback's quantumMode, and the four bytes stored

vars == <<mounted, target, quantumMode, ibmStatus, logs, ephemeris, imageRef,
          phaseRef, requestRef, raf, fxStale, loads, timers, surface, now, px>>

\* ------------------------------------------------------------- helpers
Min(a, b) == IF a < b THEN a ELSE b

Entry(ts, msg, tgt) == [ts |-> ts, msg |-> msg, tgt |-> tgt]

\* addLog with the new entry put at the end: [...prev, entry].slice(0, 10).
addLog_AtEnd(prev, ts, msg, tgt) ==
  LET all == prev \o <<Entry(ts, msg, tgt)>>
  IN  SubSeq(all, 1, Min(LogCap, Len(all)))

\* addLog: setLogs(prev => [`[time] msg`, ...prev].slice(0, 10))
addLog(prev, ts, msg, tgt) ==
  LET all == <<Entry(ts, msg, tgt)>> \o prev
  IN  SubSeq(all, 1, Min(LogCap, Len(all)))

\* useState's initial logs: two literal lines without a timestamp.
InitialLogs ==
  << Entry(0, "SYSTEM INITIALIZED", "-"), Entry(0, "TELESCOPE LINK ESTABLISHED", "-") >>

Blank == [img |-> NoImage, mode |-> FALSE, phase |-> 0]

\* The pixel before any frame is shaded.
IdlePx == [in |-> <<0, 0, 0, 0>>, noise |-> 0, mode |-> FALSE,
           data |-> <<0, 0, 0, 0>>, done |-> FALSE]

Max(a, b) == IF a > b THEN a ELSE b

\* A store into the Uint8ClampedArray frame.data of a number x, given in
\* units of 1/NoiseScale: x is clamped to 0..255, then rounded to the nearest
\* integer, a tie going to the even one.
Uint8ClampedStore(x) ==
  LET c == Min(Max(x, 0), ByteMax * NoiseScale)
      f == c \div NoiseScale
      rest == c % NoiseScale
  IN  IF 2 * rest > NoiseScale THEN f + 1
      ELSE IF 2 * rest < NoiseScale THEN f
      ELSE IF f % 2 = 0 THEN f ELSE f + 1

\* The quantumMode branch with the noise added instead of subtracted.
QuantumPixel_AddsNoise(in, n) ==
  << Uint8ClampedStore(Min(ByteMax * NoiseScale, (in[1] + RedBoost) * NoiseScale)),
     Uint8ClampedStore(Min(ByteMax * NoiseScale, (in[2] + GreenBoost) * NoiseScale + n)),
     Uint8ClampedStore(Min(ByteMax * NoiseScale, (in[3] + BlueBoost) * NoiseScale + n)),
     in[4] >>

\* The quantumMode branch of the shader loop: Math.min(255, ...) stored into
\* data[i], data[i+1], data[i+2]; data[i+3] is not written.
QuantumPixel(in, n) ==
  << Uint8ClampedStore(Min(ByteMax * NoiseScale, (in[1] + RedBoost) * NoiseScale)),
     Uint8ClampedStore(Min(ByteMax * NoiseScale, (in[2] + GreenBoost) * NoiseScale - n)),
     Uint8ClampedStore(Min(ByteMax * NoiseScale, (in[3] + BlueBoost) * NoiseScale - n)),
     in[4] >>

\* The standard branch leaving the blue channel as it was.
StandardPixel_SkipsBlue(in, n) ==
  << Uint8ClampedStore(Max(0, in[1] * NoiseScale + n)),
     Uint8ClampedStore(Max(0, in[2] * NoiseScale + n)),
     in[3],
     in[4] >>

\* The standard branch: Math.max(0, ...) stored into the three channels.
StandardPixel(in, n) ==
  << Uint8ClampedStore(Max(0, in[1] * NoiseScale + n)),
     Uint8ClampedStore(Max(0, in[2] * NoiseScale + n)),
     Uint8ClampedStore(Max(0, in[3] * NoiseScale + n)),
     in[4] >>

RemoveAt(s, i) == SubSeq(s, 1, i - 1) \o SubSeq(s, i + 1, Len(s))

RafIds(q) == {cb.id : cb \in q}

\* cancelAnimationFrame(id)
CancelAF(q, id) == {cb \in q : cb.id # id}

\* requestAnimationFrame returns a handle that names no other pending request
\* and differs from the handle held in requestRef.
NewId(q, ref) ==
  CHOOSE n \in 1..(Cardinality(q) + 2) :
     /\ n \notin RafIds(q) \cup {ref}
     /\ \A m \in 1..(n - 1) : m \in RafIds(q) \cup {ref}

\* The frame effect without its cleanup.
FrameEffect_NoCancel(q, ref, mode) ==
  LET id == NewId(q, ref)
  IN  [q |-> q \cup {[id |-> id, mode |-> mode]}, ref |-> id]

\* The frame effect: cleanup of the previous run, then
\* requestRef.current = requestAnimationFrame(processFrame).
FrameEffect(q, ref, mode) ==
  LET q1 == CancelAF(q, ref)
      id == NewId(q1, ref)
  IN  [q |-> q1 \cup {[id |-> id, mode |-> mode]}, ref |-> id]

\* A render that drops the pending frame effect instead of running it.
Flushed_Skip == [q |-> raf, ref |-> requestRef]

\* A render first flushes a frame effect that is still pending.
Flushed ==
  IF fxStale THEN FrameEffect(raf, requestRef, quantumMode)
             ELSE [q |-> raf, ref |-> requestRef]

\* ---------------------------------------------------------------- Init
\* The state after the first render and its two mount effects: the image
\* loader has logged the slew to MOON and started its load, the frame effect
\* has requested the first frame.
Init ==
  /\ mounted = TRUE
  /\ target = "MOON"
  /\ quantumMode = FALSE
  /\ ibmStatus = "DISCONNECTED"
  /\ logs = addLog(InitialLogs, 1, "SLEWING TELESCOPE TO", "MOON")
  /\ ephemeris = TARGETS["MOON"]
  /\ imageRef = NoImage
  /\ phaseRef = 0
  /\ requestRef = 1
  /\ raf = {[id |-> 1, mode |-> FALSE]}
  /\ fxStale = FALSE
  /\ loads = [t \in TargetIds |-> IF t = "MOON" THEN 1 ELSE 0]
  /\ timers = <<>>
  /\ surface = Blank
  /\ now = 1
  /\ px = IdlePx

\* ------------------------------------------------------------- actions
\* connectToIBM whose ACTIVE branch does not return before setTimeout: the
\* disconnect also sets the 1500 ms timer.
ConnectClick_NoReturn ==
  /\ mounted
  /\ now' = now + 1
  /\ IF ibmStatus = "ACTIVE"
       THEN /\ ibmStatus' = "DISCONNECTED"
            /\ logs' = addLog(logs, now', "IBM QUANTUM SESSION TERMINATED.", "-")
       ELSE /\ ibmStatus' = "CONNECTING"
            /\ logs' = addLog(logs, now', ">> HANDSHAKE: IBM QUANTUM CLOUD...", "-")
  /\ timers' = Append(timers, AuthDelay)
  /\ raf' = Flushed.q
  /\ requestRef' = Flushed.ref
  /\ fxStale' = FALSE
  /\ UNCHANGED <<mounted, target, quantumMode, ephemeris, imageRef, phaseRef,
                 loads, surface>>
  /\ UNCHANGED px

\* connectToIBM that clears the timers of an earlier trigger before it sets
\* its own.
ConnectClick_CancelsPending ==
  /\ mounted
  /\ now' = now + 1
  /\ IF ibmStatus = "ACTIVE"
       THEN /\ ibmStatus' = "DISCONNECTED"
            /\ logs' = addLog(logs, now', "IBM QUANTUM SESSION TERMINATED.", "-")
            /\ timers' = timers
       ELSE /\ ibmStatus' = "CONNECTING"
            /\ logs' = addLog(logs, now', ">> HANDSHAKE: IBM QUANTUM CLOUD...", "-")
            /\ timers' = <<AuthDelay>>
  /\ raf' = Flushed.q
  /\ requestRef' = Flushed.ref
  /\ fxStale' = FALSE
  /\ UNCHANGED <<mounted, target, quantumMode, ephemeris, imageRef, phaseRef,
                 loads, surface>>
  /\ UNCHANGED px

\* connectToIBM whose disconnect also switches the filter off.
ConnectClick_FilterOff ==
  /\ mounted
  /\ now' = now + 1
  /\ IF ibmStatus = "ACTIVE"
       THEN /\ ibmStatus' = "DISCONNECTED"
            /\ logs' = addLog(logs, now', "IBM QUANTUM SESSION TERMINATED.", "-")
            /\ timers' = timers
            /\ quantumMode' = FALSE
            /\ fxStale' = quantumMode
       ELSE /\ ibmStatus' = "CONNECTING"
            /\ logs' = addLog(logs, now', ">> HANDSHAKE: IBM QUANTUM CLOUD...", "-")
            /\ timers' = Append(timers, AuthDelay)
            /\ quantumMode' = quantumMode
            /\ fxStale' = FALSE
  /\ raf' = Flushed.q
  /\ requestRef' = Flushed.ref
  /\ UNCHANGED <<mounted, target, ephemeris, imageRef, phaseRef, loads, surface>>
  /\ UNCHANGED px

\* onClick={connectToIBM}
ConnectClick ==
  /\ mounted
  /\ now' = now + 1
  /\ IF ibmStatus = "ACTIVE"
       THEN /\ ibmStatus' = "DISCONNECTED"
            /\ logs' = addLog(logs, now', "IBM QUANTUM SESSION TERMINATED.", "-")
            /\ timers' = timers
       ELSE /\ ibmStatus' = "CONNECTING"
            /\ logs' = addLog(logs, now', ">> HANDSHAKE: IBM QUANTUM CLOUD...", "-")
            /\ timers' = Append(timers, AuthDelay)
  /\ raf' = Flushed.q
  /\ requestRef' = Flushed.ref
  /\ fxStale' = FALSE
  /\ UNCHANGED <<mounted, target, quantumMode, ephemeris, imageRef, phaseRef,
                 loads, surface>>
  /\ UNCHANGED px

\* A timer may run once no timer set before it with a delay no longer than
\* its own is still pending: timers of one delay run in the order they were
\* set, and a 1500 ms timer set after a 2000 ms one may run before it.
TimerReady(i) ==
  /\ i \in 1..Len(timers)
  /\ \A j \in 1..(i - 1) : timers[j] > timers[i]

\* The outer callback without its addLog.
FireAuthTimer_NoLog(i) ==
  /\ TimerReady(i)
  /\ timers[i] = AuthDelay
  /\ timers' = Append(RemoveAt(timers, i), QueueDelay)
  /\ IF mounted
       THEN /\ ibmStatus' = "QUEUED"
            /\ raf' = Flushed.q
            /\ requestRef' = Flushed.ref
            /\ fxStale' = FALSE
       ELSE UNCHANGED <<ibmStatus, raf, requestRef, fxStale>>
  /\ UNCHANGED <<mounted, target, quantumMode, ephemeris, imageRef, phaseRef,
                 loads, surface, now, logs>>
  /\ UNCHANGED px

\* The outer setTimeout callback (1500 ms).
FireAuthTimer(i) ==
  /\ TimerReady(i)
  /\ timers[i] = AuthDelay
  /\ timers' = Append(RemoveAt(timers, i), QueueDelay)
  /\ IF mounted
       THEN /\ now' = now + 1
            /\ ibmStatus' = "QUEUED"
            /\ logs' = addLog(logs, now', ">> AUTHENTICATED. JOB QUEUED", "-")
            /\ raf' = Flushed.q
            /\ requestRef' = Flushed.ref
            /\ fxStale' = FALSE
       ELSE UNCHANGED <<now, ibmStatus, logs, raf, requestRef, fxStale>>
  /\ UNCHANGED <<mounted, target, quantumMode, ephemeris, imageRef, phaseRef,
                 loads, surface>>
  /\ UNCHANGED px

\* The inner callback without setQuantumMode(true).
FireQueueTimer_NoForce(i) ==
  /\ i \in 1..Len(timers)
  /\ \A j \in 1..(i - 1) : timers[j] > timers[i]
  /\ timers[i] = QueueDelay
  /\ timers' = RemoveAt(timers, i)
  /\ IF mounted
       THEN /\ now' = now + 1
            /\ ibmStatus' = "ACTIVE"
            /\ logs' = addLog(logs, now', ">> QPU ALLOCATED. QUANTUM KERNEL RUNNING.", "-")
            /\ raf' = Flushed.q
            /\ requestRef' = Flushed.ref
            /\ fxStale' = FALSE
       ELSE UNCHANGED <<now, ibmStatus, logs, raf, requestRef, fxStale>>
  /\ UNCHANGED <<mounted, target, quantumMode, ephemeris, imageRef, phaseRef, loads,
                 surface>>
  /\ UNCHANGED px

\* The inner setTimeout callback (2000 ms).
FireQueueTimer(i) ==
  /\ TimerReady(i)
  /\ timers[i] = QueueDelay
  /\ timers' = RemoveAt(timers, i)
  /\ IF mounted
       THEN /\ now' = now + 1
            /\ ibmStatus' = "ACTIVE"
            /\ logs' = addLog(logs, now', ">> QPU ALLOCATED. QUANTUM KERNEL RUNNING.", "-")
            /\ quantumMode' = TRUE
            /\ raf' = Flushed.q
            /\ requestRef' = Flushed.ref
            /\ fxStale' = (quantumMode = FALSE)
       ELSE UNCHANGED <<now, ibmStatus, logs, quantumMode, raf, requestRef, fxStale>>
  /\ UNCHANGED <<mounted, target, ephemeris, imageRef, phaseRef, loads, surface>>
  /\ UNCHANGED px

\* onClick={() => setTarget(t)} and the image-loader effect it triggers.
SelectTarget(t) ==
  /\ mounted
  /\ t # target
  /\ now' = now + 1
  /\ target' = t
  /\ loads' = [loads EXCEPT ![t] = @ + 1]
  /\ logs' = addLog(logs, now', "SLEWING TELESCOPE TO", t)
  /\ raf' = Flushed.q
  /\ requestRef' = Flushed.ref
  /\ fxStale' = FALSE
  /\ UNCHANGED <<mounted, quantumMode, ibmStatus, ephemeris, imageRef, phaseRef,
                 timers, surface>>
  /\ UNCHANGED px

\* img.onload reading the current target instead of the one it was issued for.
LoadSuccess_LogsCurrent(t) ==
  /\ loads[t] > 0
  /\ loads' = [loads EXCEPT ![t] = @ - 1]
  /\ imageRef' = t
  /\ IF mounted
       THEN /\ now' = now + 1
            /\ ephemeris' = TARGETS[target]
            /\ logs' = addLog(logs, now', "TRACKING LOCK:", target)
            /\ raf' = Flushed.q
            /\ requestRef' = Flushed.ref
            /\ fxStale' = FALSE
       ELSE UNCHANGED <<now, ephemeris, logs, raf, requestRef, fxStale>>
  /\ UNCHANGED <<mounted, target, quantumMode, ibmStatus, phaseRef, timers, surface>>
  /\ UNCHANGED px

\* img.onload of a load issued for target t.
LoadSuccess(t) ==
  /\ loads[t] > 0
  /\ loads' = [loads EXCEPT ![t] = @ - 1]
  /\ imageRef' = t
  /\ IF mounted
       THEN /\ now' = now + 1
            /\ ephemeris' = TARGETS[t]
            /\ logs' = addLog(logs, now', "TRACKING LOCK:", t)
            /\ raf' = Flushed.q
            /\ requestRef' = Flushed.ref
            /\ fxStale' = FALSE
       ELSE UNCHANGED <<now, ephemeris, logs, raf, requestRef, fxStale>>
  /\ UNCHANGED <<mounted, target, quantumMode, ibmStatus, phaseRef, timers, surface>>
  /\ UNCHANGED px

\* A failed load that drops the image held so far.
LoadFail_ClearsImage(t) ==
  /\ loads[t] > 0
  /\ loads' = [loads EXCEPT ![t] = @ - 1]
  /\ imageRef' = NoImage
  /\ UNCHANGED <<mounted, target, quantumMode, ibmStatus, logs, ephemeris,
                 phaseRef, requestRef, raf, fxStale, timers, surface, now>>
  /\ UNCHANGED px

\* The load of t's image fails: no onerror handler is installed.
LoadFail(t) ==
  /\ loads[t] > 0
  /\ loads' = [loads EXCEPT ![t] = @ - 1]
  /\ UNCHANGED <<mounted, target, quantumMode, ibmStatus, logs, ephemeris, imageRef,
                 phaseRef, requestRef, raf, fxStale, timers, surface, now>>
  /\ UNCHANGED px

\* A filter toggle that restarts the animation clock.
ToggleFilter_ResetsPhase ==
  /\ mounted
  /\ quantumMode' = ~quantumMode
  /\ phaseRef' = 0
  /\ raf' = Flushed.q
  /\ requestRef' = Flushed.ref
  /\ fxStale' = TRUE
  /\ UNCHANGED <<mounted, target, ibmStatus, logs, ephemeris, imageRef,
                 loads, timers, surface, now>>
  /\ UNCHANGED px

\* onClick={() => setQuantumMode(!quantumMode)}
ToggleFilter ==
  /\ mounted
  /\ quantumMode' = ~quantumMode
  /\ raf' = Flushed.q
  /\ requestRef' = Flushed.ref
  /\ fxStale' = TRUE
  /\ UNCHANGED <<mounted, target, ibmStatus, logs, ephemeris, imageRef, phaseRef,
                 loads, timers, surface, now>>
  /\ UNCHANGED px

\* The frame effect re-runs for the re-created processFrame.
FlushEffect ==
  /\ mounted
  /\ fxStale
  /\ raf' = Flushed.q
  /\ requestRef' = Flushed.ref
  /\ fxStale' = FALSE
  /\ UNCHANGED <<mounted, target, quantumMode, ibmStatus, logs, ephemeris, imageRef,
                 phaseRef, loads, timers, surface, now>>
  /\ UNCHANGED px

\* processFrame without its early return.
processFrame_NoGuard(cb) ==
  /\ cb \in raf
  /\ phaseRef < MaxFrames * PhaseInc
  /\ phaseRef' = phaseRef + PhaseInc
  /\ surface' = [img |-> imageRef, mode |-> cb.mode, phase |-> phaseRef']
  /\ LET q1 == raf \ {cb}
         id == NewId(q1, requestRef)
     IN  /\ raf' = q1 \cup {[id |-> id, mode |-> cb.mode]}
         /\ requestRef' = id
  /\ UNCHANGED <<mounted, target, quantumMode, ibmStatus, logs, ephemeris, imageRef,
                 fxStale, loads, timers, now>>
  /\ UNCHANGED px

\* processFrame, run by the browser for the pending request cb.
processFrame(cb) ==
  /\ cb \in raf
  /\ IF ~mounted \/ imageRef = NoImage
       THEN /\ raf' = raf \ {cb}
            /\ UNCHANGED <<phaseRef, surface, requestRef>>
       ELSE /\ phaseRef < MaxFrames * PhaseInc
            /\ phaseRef' = phaseRef + PhaseInc
            /\ surface' = [img |-> imageRef, mode |-> cb.mode, phase |-> phaseRef']
            /\ LET q1 == raf \ {cb}
                   id == NewId(q1, requestRef)
               IN  /\ raf' = q1 \cup {[id |-> id, mode |-> cb.mode]}
                   /\ requestRef' = id
  /\ UNCHANGED <<mounted, target, quantumMode, ibmStatus, logs, ephemeris, imageRef,
                 fxStale, loads, timers, now>>
  /\ UNCHANGED px

\* Teardown without cancelAnimationFrame.
Unmount_NoCancel ==
  /\ mounted
  /\ mounted' = FALSE
  /\ raf' = Flushed.q
  /\ requestRef' = Flushed.ref
  /\ fxStale' = FALSE
  /\ UNCHANGED <<target, quantumMode, ibmStatus, logs, ephemeris, imageRef, phaseRef,
                 loads, timers, surface, now>>
  /\ UNCHANGED px

\* The component is removed: the frame effect's cleanup runs.
Unmount ==
  /\ mounted
  /\ mounted' = FALSE
  /\ raf' = CancelAF(Flushed.q, Flushed.ref)
  /\ requestRef' = Flushed.ref
  /\ fxStale' = FALSE
  /\ UNCHANGED <<target, quantumMode, ibmStatus, logs, ephemeris, imageRef, phaseRef,
                 loads, timers, surface, now>>
  /\ UNCHANGED px

Next ==
  \/ now < MaxTime /\ ConnectClick
  \/ now < MaxTime /\ \E i \in 1..Len(timers) : FireAuthTimer(i)
  \/ now < MaxTime /\ \E i \in 1..Len(timers) : FireQueueTimer(i)
  \/ now < MaxTime /\ \E t \in TargetIds : SelectTarget(t)
  \/ now < MaxTime /\ \E t \in TargetIds : LoadSuccess(t)
  \/ \E t \in TargetIds : LoadFail(t)
  \/ ToggleFilter
  \/ FlushEffect
  \/ \E cb \in raf : processFrame(cb)
  \/ Unmount

Spec == Init /\ [][Next]_vars

InFlight == loads["MOON"] + loads["JUPITER"] + loads["SATURN"] + loads["MARS"]

\* The log-producing events alone (target selections, load completions,
\* session transitions), to a larger clock bound.
LogNext ==
  \/ /\ now < MaxLogTime
     /\ ibmStatus = "ACTIVE" \/ Len(timers) < MaxLogTimers
     /\ ConnectClick
  \/ now < MaxLogTime /\ \E i \in 1..Len(timers) : FireAuthTimer(i)
  \/ now < MaxLogTime /\ \E i \in 1..Len(timers) : FireQueueTimer(i)
  \/ now < MaxLogTime /\ InFlight < MaxLogLoads /\ \E t \in TargetIds : SelectTarget(t)
  \/ now < MaxLogTime /\ \E t \in TargetIds : LoadSuccess(t)

LogSpec == Init /\ [][LogNext]_vars

\* ------------------------------------------------------ step predicates
TimerStep == \E i \in 1..Len(timers) : FireAuthTimer(i) \/ FireQueueTimer(i)

\* A pending timer's callback runs once its delay has passed.
FairSpec == Spec /\ WF_vars(now < MaxTime /\ TimerStep)

FrameStep == \E cb \in raf : processFrame(cb)

LoadFailStep == \E t \in TargetIds : LoadFail(t)

NoLoadPending == \A t \in TargetIds : loads[t] = 0

IsMsg(e, m) == e.msg = m

\* logs' is logs with one entry put on top and the entries beyond the cap cut.
OneEntryOnTop ==
  /\ Len(logs') = Min(Len(logs) + 1, LogCap)
  /\ \A k \in 2..Len(logs') : logs'[k] = logs[k - 1]

\* C1: from Disconnected with no callback pending, one connect trigger and no
\* further one takes ibmStatus to Connecting with one 1500 ms callback
\* pending, that callback to Queued with one 2000 ms callback pending, and
\* that one to Active with none pending and quantumMode true.
C1_Steps ==
  /\ (ConnectClick /\ ibmStatus = "DISCONNECTED" /\ timers = <<>>)
       => (ibmStatus' = "CONNECTING" /\ timers' = <<AuthDelay>>)
  /\ (mounted /\ ~ConnectClick /\ ibmStatus = "CONNECTING" /\ timers = <<AuthDelay>>
        /\ <<ibmStatus, timers>>' # <<ibmStatus, timers>>)
       => (TimerStep /\ ibmStatus' = "QUEUED" /\ timers' = <<QueueDelay>>)
  /\ (mounted /\ ~ConnectClick /\ ibmStatus = "QUEUED" /\ timers = <<QueueDelay>>
        /\ <<ibmStatus, timers>>' # <<ibmStatus, timers>>)
       => (TimerStep /\ ibmStatus' = "ACTIVE" /\ timers' = <<>> /\ quantumMode' = TRUE)

\* ... and, the component staying mounted and the clock bound not reached,
\* Active is reached.
C1_ConnectSequence ==
  /\ [][C1_Steps]_vars
  /\ (mounted /\ ibmStatus = "CONNECTING" /\ timers = <<AuthDelay>>)
       ~> (ibmStatus = "ACTIVE" \/ ~mounted \/ now >= MaxTime)

\* The log shows handshake, queued, allocated as the only session entries.
C1_Witness ==
  /\ ibmStatus = "ACTIVE" /\ quantumMode /\ timers = <<>> /\ now = 4
  /\ IsMsg(logs[1], ">> QPU ALLOCATED. QUANTUM KERNEL RUNNING.")
  /\ IsMsg(logs[2], ">> AUTHENTICATED. JOB QUEUED")
  /\ IsMsg(logs[3], ">> HANDSHAKE: IBM QUANTUM CLOUD...")

\* C2: a connect trigger while Active sets ibmStatus to Disconnected in that
\* step, puts one termination entry on the log and sets no timer.
C2_DisconnectImmediate ==
  [][ (ConnectClick /\ ibmStatus = "ACTIVE")
        => /\ ibmStatus' = "DISCONNECTED"
           /\ IsMsg(logs'[1], "IBM QUANTUM SESSION TERMINATED.")
           /\ OneEntryOnTop
           /\ timers' = timers
    ]_vars

C2_Witness ==
  /\ ibmStatus = "DISCONNECTED"
  /\ IsMsg(logs[1], "IBM QUANTUM SESSION TERMINATED.")
  /\ IsMsg(logs[2], ">> QPU ALLOCATED. QUANTUM KERNEL RUNNING.")

\* C3: every change of ibmStatus follows one of the four edges of the
\* session state machine, and ibmStatus leaves Disconnected only by a
\* connect trigger.
SessionEdges ==
  { <<"DISCONNECTED", "CONNECTING">>, <<"CONNECTING", "QUEUED">>,
    <<"QUEUED", "ACTIVE">>, <<"ACTIVE", "DISCONNECTED">> }

C3_OnlyFourEdges ==
  [][ /\ (ibmStatus' # ibmStatus) => (<<ibmStatus, ibmStatus'>> \in SessionEdges)
      /\ (ibmStatus = "DISCONNECTED" /\ ibmStatus' # ibmStatus) => ConnectClick
    ]_vars

\* C4: while the component is mounted and an image is loaded, a frame
\* callback is pending or about to be requested (by the frame effect, or
\* by the pending session callbacks turning quantumMode on): the frame loop
\* needs no further user action to go on.
C4_FrameLoopAlive ==
  (mounted /\ imageRef # NoImage)
    => (raf # {} \/ fxStale \/ (~quantumMode /\ timers # <<>>))

\* The latest selection's load succeeded: a tracking-lock entry for the
\* current target lies above every slewing entry.
LatestSelectionLocked ==
  \E k \in 1..Len(logs) :
     /\ IsMsg(logs[k], "TRACKING LOCK:") /\ logs[k].tgt = target
     /\ \A j \in 1..(k - 1) : ~IsMsg(logs[j], "SLEWING TELESCOPE TO")

\* C5: once every load has completed and the load of the latest selection
\* succeeded, the loaded image and the metadata are those of the current
\* target, whatever the order the loads completed in.
C5_LatestLoadWins ==
  (mounted /\ NoLoadPending /\ LatestSelectionLocked)
    => (imageRef = target /\ ephemeris = TARGETS[target])

\* C6: whenever no load is pending after a selection whose load succeeded,
\* the displayed ra, dec and dist are those of the selected target's record.
C6_MetadataOfSelected ==
  (mounted /\ NoLoadPending /\ LatestSelectionLocked)
    => /\ ephemeris.ra = TARGETS[target].ra
       /\ ephemeris.dec = TARGETS[target].dec
       /\ ephemeris.dist = TARGETS[target].dist

\* C7: the log never holds more than LogCap entries, its entries are newest
\* first, and every change of it puts one entry stamped with the current
\* time on top and cuts what lies beyond the cap: the oldest entry.
NewestFirst ==
  \A j \in 1..Len(logs) : \A k \in 1..(j - 1) : logs[k].ts >= logs[j].ts

C7_LogCapped ==
  /\ [](Len(logs) <= LogCap /\ NewestFirst)
  /\ [][ (logs' # logs) => (OneEntryOnTop /\ logs'[1].ts = now' /\ now' > now) ]_vars

\* The log is full and the bottom one of the two initial lines was evicted.
C7_Witness ==
  /\ Len(logs) = LogCap
  /\ IsMsg(logs[LogCap], "SYSTEM INITIALIZED")
  /\ now = 9

\* C8: while no image has loaded nothing was written to the surface and the
\* phase is still 0, and a frame tick that finds no image leaves the surface,
\* the phase and the component's state as they are and requests no frame.
C8_NoFrameBeforeImage ==
  /\ [](imageRef = NoImage => (surface = Blank /\ phaseRef = 0))
  /\ [][ (FrameStep /\ (imageRef = NoImage \/ ~mounted))
           => UNCHANGED <<surface, phaseRef, imageRef, requestRef, target, quantumMode,
                          ibmStatus, logs, ephemeris, loads, timers>> ]_vars

\* A tick was skipped: mounted, no image, and no frame requested any more.
C8_Witness ==
  mounted /\ imageRef = NoImage /\ raf = {} /\ ~fxStale /\ surface = Blank /\ phaseRef = 0

\* C9: a failed image load leaves the loaded image, the metadata, the log,
\* ibmStatus, quantumMode and the frame loop as they were.
C9_LoadFailureSilent ==
  [][ LoadFailStep
        => UNCHANGED <<imageRef, ephemeris, logs, ibmStatus, quantumMode, raf,
                       requestRef, fxStale, surface, phaseRef, target>> ]_vars

\* MOON's image is held, another target was selected last, its load is over
\* and logged no tracking lock: it failed.
C9_Witness ==
  /\ mounted /\ imageRef = "MOON" /\ target # "MOON" /\ NoLoadPending
  /\ IsMsg(logs[1], "SLEWING TELESCOPE TO") /\ logs[1].tgt = target
  /\ ephemeris = TARGETS["MOON"]

\* C10: the filter toggle flips quantumMode and leaves ibmStatus and the
\* pending session callbacks alone; the steps to Connecting, Queued and
\* Disconnected leave quantumMode alone; the step to Active sets it true;
\* nothing else writes it.
C10_FilterIndependent ==
  [][ /\ ToggleFilter => (quantumMode' = ~quantumMode /\ UNCHANGED <<ibmStatus, timers>>)
      /\ (ibmStatus' \in {"CONNECTING", "QUEUED", "DISCONNECTED"}
            /\ (ConnectClick \/ TimerStep)) => (quantumMode' = quantumMode)
      /\ (ibmStatus' = "ACTIVE" /\ TimerStep /\ mounted) => (quantumMode' = TRUE)
      /\ (quantumMode' # quantumMode)
           => (ToggleFilter \/ (TimerStep /\ ibmStatus' = "ACTIVE"))
    ]_vars

\* The session was disconnected and the filter the session switched on is
\* still on.
C10_Witness ==
  /\ ibmStatus = "DISCONNECTED" /\ quantumMode
  /\ IsMsg(logs[1], "IBM QUANTUM SESSION TERMINATED.")

StatusMsg(st) ==
  CASE st = "CONNECTING"   -> ">> HANDSHAKE: IBM QUANTUM CLOUD..."
    [] st = "QUEUED"       -> ">> AUTHENTICATED. JOB QUEUED"
    [] st = "ACTIVE"       -> ">> QPU ALLOCATED. QUANTUM KERNEL RUNNING."
    [] st = "DISCONNECTED" -> "IBM QUANTUM SESSION TERMINATED."

\* The session simulator and the filter toggle alone, to a larger clock bound.
SessionNext ==
  \/ now < MaxSessionTime /\ ConnectClick
  \/ now < MaxSessionTime /\ \E i \in 1..Len(timers) : FireAuthTimer(i)
  \/ now < MaxSessionTime /\ \E i \in 1..Len(timers) : FireQueueTimer(i)
  \/ ToggleFilter
  \/ FlushEffect

SessionSpec ==
  Init /\ [][SessionNext]_vars /\ WF_vars(now < MaxSessionTime /\ TimerStep)

CountMsg(m) == Cardinality({k \in 1..Len(logs) : IsMsg(logs[k], m)})

CountTimers(d) == Cardinality({k \in 1..Len(timers) : timers[k] = d})

\* C13: every connect trigger outside Active adds its own 1500 ms timer and
\* leaves the pending ones; a disconnect and a filter toggle leave them too;
\* every chain is pending in exactly one timer or has written Queued and
\* Active (so k triggers with no timer left give k writes of Active); every
\* 2000 ms callback sets Active and quantumMode true whatever the state; and
\* the pending timers run out.
C13_ChainsNeverCancelled ==
  /\ []((mounted /\ Len(logs) = now + 2) =>
          /\ CountMsg(StatusMsg("CONNECTING"))
               = CountMsg(StatusMsg("ACTIVE")) + Len(timers)
          /\ CountMsg(StatusMsg("QUEUED"))
               = CountMsg(StatusMsg("ACTIVE")) + CountTimers(QueueDelay))
  /\ [][ /\ (ConnectClick /\ ibmStatus # "ACTIVE") => (timers' = Append(timers, AuthDelay))
         /\ ((ConnectClick /\ ibmStatus = "ACTIVE") \/ ToggleFilter) => (timers' = timers)
         /\ (mounted /\ \E i \in 1..Len(timers) : FireAuthTimer(i))
              => (ibmStatus' = "QUEUED" /\ Len(timers') = Len(timers))
         /\ (mounted /\ \E i \in 1..Len(timers) : FireQueueTimer(i))
              => (ibmStatus' = "ACTIVE" /\ quantumMode' = TRUE)
    ]_vars
  /\ (timers # <<>>) ~> (timers = <<>> \/ now >= MaxSessionTime)

\* Two overlapping chains have both run out: two triggers, two writes of Active.
C13_Witness ==
  /\ timers = <<>> /\ ibmStatus = "ACTIVE"
  /\ CountMsg(StatusMsg("CONNECTING")) = 2 /\ CountMsg(StatusMsg("ACTIVE")) = 2
  /\ IsMsg(logs[1], StatusMsg("ACTIVE")) /\ IsMsg(logs[2], StatusMsg("ACTIVE"))

\* C14: once the component is torn down no frame callback is pending and
\* neither the surface nor the phase is written again.
C14_NoFrameAfterTeardown ==
  /\ [](~mounted => raf = {})
  /\ [][ (~mounted \/ ~mounted')
           => (raf' = {} /\ surface' = surface /\ phaseRef' = phaseRef) ]_vars

\* Frames were processed, then the component was torn down.
C14_Witness ==
  ~mounted /\ surface # Blank /\ phaseRef >= PhaseInc /\ raf = {}

SlewAt(k, t) == IsMsg(logs[k], "SLEWING TELESCOPE TO") /\ logs[k].tgt = t

LockAt(k, t) == IsMsg(logs[k], "TRACKING LOCK:") /\ logs[k].tgt = t

C16_PhaseClock ==
  /\ [](phaseRef >= 0)
  /\ [][ /\ (FrameStep /\ mounted /\ imageRef # NoImage)
              => (phaseRef' = phaseRef + PhaseInc /\ surface'.phase = phaseRef')
         /\ (phaseRef' # phaseRef)
              => (FrameStep /\ phaseRef' = phaseRef + PhaseInc)
         /\ (surface' # surface) => (phaseRef' = phaseRef + PhaseInc)
    ]_vars

\* Two frames ran with the filter off, then the filter was switched on.
C16_Witness ==
  phaseRef = 2 * PhaseInc /\ surface.phase = phaseRef /\ ~surface.mode /\ quantumMode

\* C17: a step that changes ibmStatus puts exactly one entry on the log, the
\* one of the state entered.
C17_TransitionLogged ==
  [][ (ibmStatus' # ibmStatus)
        => (OneEntryOnTop /\ IsMsg(logs'[1], StatusMsg(ibmStatus'))
              /\ logs'[1].ts = now') ]_vars

C17_Witness ==
  /\ ibmStatus = "QUEUED"
  /\ IsMsg(logs[1], ">> AUTHENTICATED. JOB QUEUED")
  /\ IsMsg(logs[2], ">> HANDSHAKE: IBM QUANTUM CLOUD...")

\* C18: at most one frame callback is pending, and it is the one requestRef
\* names.
C18_OneFramePending ==
  /\ Cardinality(raf) <= 1
  /\ \A cb \in raf : cb.id = requestRef

\* The loop ran with the filter off, the filter was switched on and the
\* frame effect has requested the new callback.
C18_Witness ==
  /\ quantumMode /\ ~fxStale /\ ~surface.mode /\ surface.phase >= PhaseInc
  /\ raf = {[id |-> requestRef, mode |-> TRUE]}

\* C19: once the frame effect has re-run after a change of quantumMode, the
\* pending callback holds the current quantumMode and the frame it processes
\* is written with it (the pixel branch and the reticle colour both read the
\* callback's captured quantumMode).
C19_FrameUsesCurrentMode ==
  /\ [](~fxStale => \A cb \in raf : cb.mode = quantumMode)
  /\ [][ (FrameStep /\ ~fxStale /\ surface' # surface)
           => (surface'.mode = quantumMode) ]_vars

\* A frame was written with the filter on after the session entered Active.
C19_Witness ==
  /\ surface.mode /\ quantumMode /\ ~fxStale /\ ibmStatus = "ACTIVE"
  /\ IsMsg(logs[1], ">> QPU ALLOCATED. QUANTUM KERNEL RUNNING.")


\* ---------------------------------------------------------------------------
\* The shader loop on one pixel.  Every channel's store depends only on that
\* channel and the noise term, so the red channel runs over every byte and
\* the green and blue channels follow it at fixed offsets, each covering
\* every byte too.

AlphaSamples == {0, 128, 255}

Noises == (0 - NoiseAmp * NoiseScale)..(NoiseAmp * NoiseScale)

PixelInit ==
  /\ mounted = TRUE
  /\ target = "MOON"
  /\ quantumMode = FALSE
  /\ ibmStatus = "DISCONNECTED"
  /\ logs = addLog(InitialLogs, 1, "SLEWING TELESCOPE TO", "MOON")
  /\ ephemeris = TARGETS["MOON"]
  /\ imageRef = NoImage
  /\ phaseRef = 0
  /\ requestRef = 1
  /\ raf = {[id |-> 1, mode |-> FALSE]}
  /\ fxStale = FALSE
  /\ loads = [t \in TargetIds |-> IF t = "MOON" THEN 1 ELSE 0]
  /\ timers = <<>>
  /\ surface = Blank
  /\ now = 1
  /\ \E c \in 0..ByteMax, a \in AlphaSamples, n \in Noises, m \in BOOLEAN :
       px = [in |-> <<c, (c + 97) % 256, ByteMax - c, a>>, noise |-> n,
             mode |-> m, data |-> <<c, (c + 97) % 256, ByteMax - c, a>>,
             done |-> FALSE]

\* One iteration of the pixel loop: read r, g, b, compute the noise, store
\* the branch's three channels.
ShadePixel ==
  /\ ~px.done
  /\ px' = [px EXCEPT !.data = IF px.mode THEN QuantumPixel(px.in, px.noise)
                                ELSE StandardPixel(px.in, px.noise),
                      !.done = TRUE]
  /\ UNCHANGED <<mounted, target, quantumMode, ibmStatus, logs, ephemeris,
                 imageRef, phaseRef, requestRef, raf, fxStale, loads, timers,
                 surface, now>>

PixelNext == ShadePixel

PixelSpec == PixelInit /\ [][PixelNext]_vars

\* The two-sided clamp of a number to 0..255, in units of 1/NoiseScale.
Clamp(x) == IF x < 0 THEN 0 ELSE IF x > ByteMax * NoiseScale THEN ByteMax * NoiseScale ELSE x

\* b is an integer nearest to x, and the even one when two are equally near.
IsNearest(b, x) ==
  LET d == IF b * NoiseScale >= x THEN b * NoiseScale - x ELSE x - b * NoiseScale
  IN  /\ b \in 0..ByteMax
      /\ 2 * d <= NoiseScale
      /\ (2 * d = NoiseScale => b % 2 = 0)

GreenOn == (px.in[2] + GreenBoost) * NoiseScale - px.noise
BlueOn == (px.in[3] + BlueBoost) * NoiseScale - px.noise

\* C11 as written: with the filter on the stored red is clamp(r + 10), the
\* stored green is exactly clamp(g + 40 - N), the stored blue is exactly
\* clamp(b + 50 - N), each to [0, 255], and alpha is unchanged.
C11_FilterOnExactClamp ==
  (px.done /\ px.mode) =>
    /\ px.data[1] * NoiseScale = Clamp((px.in[1] + RedBoost) * NoiseScale)
    /\ px.data[2] * NoiseScale = Clamp(GreenOn)
    /\ px.data[3] * NoiseScale = Clamp(BlueOn)
    /\ px.data[4] = px.in[4]

\* C11 amended: with the filter on the stored red is clamp(r + 10), the stored
\* green and blue are clamp(g + 40 - N) and clamp(b + 50 - N) rounded to the
\* nearest integer (a tie to the even one), and alpha is unchanged.
C11_FilterOnRoundedClamp ==
  (px.done /\ px.mode) =>
    /\ px.data[1] * NoiseScale = Clamp((px.in[1] + RedBoost) * NoiseScale)
    /\ IsNearest(px.data[2], Clamp(GreenOn))
    /\ IsNearest(px.data[3], Clamp(BlueOn))
    /\ px.data[4] = px.in[4]

\* A filter-on pixel with a fractional noise term whose green is cut at 255
\* by Math.min and whose blue is rounded.
C11_Witness ==
  /\ px.done /\ px.mode
  /\ px.noise % NoiseScale # 0
  /\ GreenOn > ByteMax * NoiseScale /\ px.data[2] = ByteMax
  /\ BlueOn < ByteMax * NoiseScale /\ px.data[3] * NoiseScale # BlueOn

\* C12 as written: with the filter off each colour channel is stored as
\* exactly clamp(channel + N, 0, 255), and alpha is unchanged.
C12_FilterOffExactClamp ==
  (px.done /\ ~px.mode) =>
    /\ \A k \in 1..3 :
         px.data[k] * NoiseScale = Clamp(px.in[k] * NoiseScale + px.noise)
    /\ px.data[4] = px.in[4]

\* C12 amended: with the filter off each colour channel is stored as
\* clamp(channel + N, 0, 255) rounded to the nearest integer (a tie to the
\* even one), and alpha is unchanged.
C12_FilterOffRoundedClamp ==
  (px.done /\ ~px.mode) =>
    /\ \A k \in 1..3 : IsNearest(px.data[k], Clamp(px.in[k] * NoiseScale + px.noise))
    /\ px.data[4] = px.in[4]

\* A filter-off pixel with a fractional noise term whose red is cut at 255 by
\* the byte buffer alone and whose green is rounded.
C12_Witness ==
  /\ px.done /\ ~px.mode
  /\ px.noise % NoiseScale # 0
  /\ px.in[1] * NoiseScale + px.noise > ByteMax * NoiseScale /\ px.data[1] = ByteMax
  /\ px.data[2] * NoiseScale # px.in[2] * NoiseScale + px.noise
  /\ px.data[2] \in 1..(ByteMax - 1)

\* A filter-off pixel whose blue is cut at 0 by Math.max.
C12_LowWitness ==
  /\ px.done /\ ~px.mode
  /\ px.in[3] * NoiseScale + px.noise < 0 /\ px.data[3] = 0

====
